---- MODULE Spec2Model ----
(***************************************************************************)
(* Account lifecycle of the journal program: createJournalEntry,           *)
(* updateJournalEntry and deleteJournalEntry over entry accounts addressed *)
(* by the seeds (title, owner).  The instruction interface (accounts,      *)
(* seeds, signer flags, arguments, record layout, length caps) is taken    *)
(* from anchor/target/types/journal.ts; the handler bodies follow the      *)
(* lifecycle description of the specification.                             *)
(***************************************************************************)
EXTENDS Integers, FiniteSets, Sequences, TLC

VARIABLES entries, balances, last, life

vars == <<entries, balances, last, life>>

\* ---------------------------------------------------------------- bounds
MaxFunds == 2400

\* ------------------------------------------------------- program constants
DiscriminatorLen == 8
PubkeyLen == 32
StringPrefixLen == 4
MaxTitleLen == 50
MaxMessageLen == 1000
LamportsPerByte == 2

\* ------------------------------------------------------------ input sets
Keys == {"alice", "bob"}
NoKey == "none"

\* A string is modelled by its content tag and its encoded byte length.
Str(tag, len) == [tag |-> tag, len |-> len]
NoStr == Str("", 0)

Titles == {Str("Day1", 4), Str("Day2", 4), Str("LongTitle", 51)}
Messages == {Str("hello", 5), Str("max", 1000), Str("over", 1001)}

\* ------------------------------------------------------ address derivation
derive(title, owner) == [title |-> title, owner |-> owner]

Slots == {derive(t, k) : t \in Titles, k \in Keys}

\* ----------------------------------------------------------- record codec
JournalEntryState(owner, title, message) ==
    [title |-> title, owner |-> owner, message |-> message]

\* variant: the account always takes the space of a record at the caps
EncodedSize_Max(title, message) ==
    DiscriminatorLen + PubkeyLen + StringPrefixLen + MaxTitleLen
        + StringPrefixLen + MaxMessageLen

EncodedSize(title, message) ==
    DiscriminatorLen + PubkeyLen + StringPrefixLen + title.len
        + StringPrefixLen + message.len

\* variant: the message cap is not enforced
FitsCaps_TitleOnly(title, message) == title.len <= MaxTitleLen

FitsCaps(title, message) ==
    title.len <= MaxTitleLen /\ message.len <= MaxMessageLen

\* -------------------------------------------------------- entry accounts
\* size = 0 : no storage allocated; init : tagged with the record discriminator
EmptyAccount ==
    [size |-> 0, lamports |-> 0, init |-> FALSE,
     data |-> JournalEntryState(NoKey, NoStr, NoStr)]

Present(acct) == acct.init
Absent(acct) == ~acct.init

\* variant: init runs whether or not the account already holds a record
NeedsInit_Always(acct) == TRUE

\* init_if_needed: the account is initialized if it does not exist yet
NeedsInit(acct) == Absent(acct)

MinBalance(bytes) == bytes * LamportsPerByte

\* ------------------------------------------------------------ instructions
Instruction(op, title, message, owner, signer, entry) ==
    [title |-> title, owner |-> owner, message |-> message,
     op |-> op, signer |-> signer, entry |-> entry]

\* accounts named by the instruction
\* variant: the owner account's signature is not required
IsSigner_Unchecked(ins) == TRUE

\* variant: one account pays for every instruction
Payer_Shared(ins) == "alice"

IsSigner(ins) == ins.signer = ins.owner
Payer(ins) == ins.owner
CloseRecipient(ins) == ins.owner

Result(e, b, r) == [entries |-> e, balances |-> b, res |-> r]
Fail(s, r) == Result(s.entries, s.balances, r)

\* variant: storage is resized without funding it
IncrementalCost_Free(acct, bytes) == 0

\* Lamports the payer must add so that the account is rent exempt at `bytes`.
IncrementalCost(acct, bytes) ==
    IF MinBalance(bytes) > acct.lamports
    THEN MinBalance(bytes) - acct.lamports ELSE 0

\* init: allocate `bytes`, fund from the payer, tag and write the record
InitEntry(acct, ins, bytes, cost) ==
    [size |-> bytes, lamports |-> acct.lamports + cost, init |-> TRUE,
     data |-> JournalEntryState(ins.owner, ins.title, ins.message)]

\* variant: the message is written over the title field as well
SetMessage_Fields(data, ins) ==
    [data EXCEPT !.message = ins.message, !.title = ins.message]

\* the update handler's write: only the message is replaced
SetMessage(data, ins) == [data EXCEPT !.message = ins.message]

\* realloc: resize to `bytes`, fund growth from the payer
ReallocEntry(acct, ins, bytes, cost) ==
    [acct EXCEPT !.size = bytes, !.lamports = @ + cost,
                 !.data = SetMessage(@, ins)]

\* variant: the lamports are moved but the record is left in place
CloseEntry_NoWipe(s, addr, recipient) ==
    Result([s.entries EXCEPT ![addr].lamports = 0],
           [s.balances EXCEPT ![recipient] = @ + s.entries[addr].lamports],
           "Ok")

\* variant: only the minimum balance of the storage is paid out
CloseEntry_RentOnly(s, addr, recipient) ==
    Result([s.entries EXCEPT ![addr] = EmptyAccount],
           [s.balances EXCEPT ![recipient] =
                @ + MinBalance(s.entries[addr].size)],
           "Ok")

\* close: the account is emptied and its lamports go to the recipient
CloseEntry(s, addr, recipient) ==
    Result([s.entries EXCEPT ![addr] = EmptyAccount],
           [s.balances EXCEPT ![recipient] = @ + s.entries[addr].lamports],
           "Ok")

createJournalEntry(s, ins) ==
    LET addr == derive(ins.title, ins.owner)
        acct == s.entries[ins.entry]
        bytes == EncodedSize(ins.title, ins.message)
        cost == IncrementalCost(acct, bytes)
        payer == Payer(ins)
    IN  IF ins.entry # addr THEN Fail(s, "AddressMismatch")
        ELSE IF ~NeedsInit(acct) THEN Fail(s, "AlreadyInitialized")
        ELSE IF ~IsSigner(ins) THEN Fail(s, "MissingSignature")
        ELSE IF ~FitsCaps(ins.title, ins.message) THEN Fail(s, "FieldTooLarge")
        ELSE IF s.balances[payer] < cost THEN Fail(s, "InsufficientFunds")
        ELSE Result([s.entries EXCEPT ![addr] = InitEntry(acct, ins, bytes, cost)],
                    [s.balances EXCEPT ![payer] = @ - cost],
                    "Ok")

\* variant: the account is resized before the payer's funds are checked
updateJournalEntry_EarlyRealloc(s, ins) ==
    LET addr == derive(ins.title, ins.owner)
        acct == s.entries[ins.entry]
        bytes == EncodedSize(ins.title, ins.message)
        cost == IncrementalCost(acct, bytes)
        payer == Payer(ins)
    IN  IF ins.entry # addr THEN Fail(s, "AddressMismatch")
        ELSE IF Absent(acct) THEN Fail(s, "NotFound")
        ELSE IF ~IsSigner(ins) \/ ins.owner # acct.data.owner
             THEN Fail(s, "Unauthorized")
        ELSE IF ~FitsCaps(ins.title, ins.message) THEN Fail(s, "FieldTooLarge")
        ELSE IF s.balances[payer] < cost
             THEN Result([s.entries EXCEPT ![addr] = ReallocEntry(acct, ins, bytes, 0)],
                         s.balances, "InsufficientFunds")
        ELSE Result([s.entries EXCEPT ![addr] = ReallocEntry(acct, ins, bytes, cost)],
                    [s.balances EXCEPT ![payer] = @ - cost],
                    "Ok")

updateJournalEntry(s, ins) ==
    LET addr == derive(ins.title, ins.owner)
        acct == s.entries[ins.entry]
        bytes == EncodedSize(ins.title, ins.message)
        cost == IncrementalCost(acct, bytes)
        payer == Payer(ins)
    IN  IF ins.entry # addr THEN Fail(s, "AddressMismatch")
        ELSE IF Absent(acct) THEN Fail(s, "NotFound")
        ELSE IF ~IsSigner(ins) \/ ins.owner # acct.data.owner
             THEN Fail(s, "Unauthorized")
        ELSE IF ~FitsCaps(ins.title, ins.message) THEN Fail(s, "FieldTooLarge")
        ELSE IF s.balances[payer] < cost THEN Fail(s, "InsufficientFunds")
        ELSE Result([s.entries EXCEPT ![addr] = ReallocEntry(acct, ins, bytes, cost)],
                    [s.balances EXCEPT ![payer] = @ - cost],
                    "Ok")

deleteJournalEntry(s, ins) ==
    LET addr == derive(ins.title, ins.owner)
        acct == s.entries[ins.entry]
    IN  IF ins.entry # addr THEN Fail(s, "AddressMismatch")
        ELSE IF Absent(acct) THEN Fail(s, "NotFound")
        ELSE IF ~IsSigner(ins) \/ ins.owner # acct.data.owner
             THEN Fail(s, "Unauthorized")
        ELSE CloseEntry(s, addr, CloseRecipient(ins))

\* instruction dispatch
Exec(s, ins) ==
    CASE ins.op = "create" -> createJournalEntry(s, ins)
      [] ins.op = "update" -> updateJournalEntry(s, ins)
      [] ins.op = "delete" -> deleteJournalEntry(s, ins)

\* --------------------------------------------------------- state machine
State == [entries |-> entries, balances |-> balances]

NoIns == Instruction("none", NoStr, NoStr, NoKey, NoKey, derive(NoStr, NoKey))
NoLast == [ins |-> NoIns, res |-> "none"]
\* `last` is the instruction most recently processed and its result; the
\* value Unobserved switches the record off.
Unobserved == [ins |-> NoIns, res |-> "unobserved"]

\* Observer of each slot's history since it last was fresh: "" (nothing),
\* "C" (created), "CU" (created, then updated), "CUD" (then deleted);
\* "off" switches the observer off.
LifeStep(l, op, res) ==
    IF l = "off" \/ res # "Ok" THEN l
    ELSE IF op = "create" THEN "C"
    ELSE IF op = "update" THEN "CU"
    ELSE IF l = "CU" THEN "CUD" ELSE ""

InitAccounts ==
    /\ entries = [a \in Slots |-> EmptyAccount]

Init ==
    /\ InitAccounts
    /\ balances = [k \in Keys |-> MaxFunds]
    /\ last = NoLast
    /\ life = [a \in Slots |-> "off"]

Submit(ins) ==
    LET r == Exec(State, ins)
    IN  /\ entries' = r.entries
        /\ balances' = r.balances
        /\ last' = IF last = Unobserved THEN last
                   ELSE [ins |-> ins, res |-> r.res]
        /\ life' = [life EXCEPT ![ins.entry] = LifeStep(@, ins.op, r.res)]

\* The caller supplies the entry account: the slot derived from the title
\* argument and the owner account, or the slot of the title under another key.
EntryChoices(title) == {derive(title, k) : k \in Keys}

CreateJournalEntry ==
    \E title \in Titles, message \in Messages, owner \in Keys, signer \in Keys :
      \E entry \in EntryChoices(title) :
        Submit(Instruction("create", title, message, owner, signer, entry))

UpdateJournalEntry ==
    \E title \in Titles, message \in Messages, owner \in Keys, signer \in Keys :
      \E entry \in EntryChoices(title) :
        Submit(Instruction("update", title, message, owner, signer, entry))

DeleteJournalEntry ==
    \E title \in Titles, owner \in Keys, signer \in Keys :
      \E entry \in EntryChoices(title) :
        Submit(Instruction("delete", title, NoStr, owner, signer, entry))

Next == CreateJournalEntry \/ UpdateJournalEntry \/ DeleteJournalEntry

Spec == Init /\ [][Next]_vars

\* One funded owner, slot histories observed.
InitLife ==
    /\ InitAccounts
    /\ \E rich \in Keys :
         balances = [k \in Keys |-> IF k = rich THEN MaxFunds ELSE 0]
    /\ last = NoLast
    /\ life = [a \in Slots |-> ""]

SpecLife == InitLife /\ [][Next]_vars

\* Instruction record switched off: the states are the account states alone.
InitOrder ==
    /\ InitAccounts
    /\ balances = [k \in Keys |-> MaxFunds]
    /\ last = Unobserved
    /\ life = [a \in Slots |-> "off"]

SpecOrder == InitOrder /\ [][Next]_vars

TypeOK ==
    /\ \A a \in Slots : entries[a].size >= 0 /\ entries[a].lamports >= 0
    /\ \A k \in Keys : balances[k] >= 0

\* ------------------------------------------------------------------ claims
\* The instruction processed by the step and its result.
StepIns == last'.ins
StepRes == last'.res

\* The instruction is submitted for slot a: it names a as entry account and
\* its title argument and owner account derive a.
Targets(ins, a) == ins.entry = a /\ derive(ins.title, ins.owner) = a

Instructions ==
    {Instruction(op, t, m, o, sg, e) :
        op \in {"create", "update"}, t \in Titles, m \in Messages,
        o \in Keys, sg \in Keys, e \in Slots}
    \cup
    {Instruction("delete", t, NoStr, o, sg, e) :
        t \in Titles, o \in Keys, sg \in Keys, e \in Slots}

\* C1: a slot that is Absent becomes Present by a successful Create, stays
\* Present under a successful Update by the owner, becomes Absent by a
\* successful Delete, and every Update or Delete submitted for an Absent slot
\* (in particular after Create, Update, Delete) fails with NotFound and leaves
\* the slot Absent.
C1_Step ==
    LET i == StepIns
        r == StepRes
        a == i.entry
    IN  Targets(i, a) =>
          /\ (i.op = "create" /\ r = "Ok")
                => Absent(entries[a]) /\ Present(entries'[a]) /\ life'[a] = "C"
          /\ (i.op = "update" /\ r = "Ok")
                => /\ Present(entries[a]) /\ Present(entries'[a])
                   /\ life[a] \in {"C", "CU"} /\ life'[a] = "CU"
          /\ (i.op = "delete" /\ r = "Ok")
                => Present(entries[a]) /\ Absent(entries'[a])
          /\ (i.op = "delete" /\ r = "Ok" /\ life[a] = "CU") => life'[a] = "CUD"
          /\ (i.op \in {"update", "delete"} /\ Absent(entries[a]))
                => r = "NotFound" /\ Absent(entries'[a])
          /\ life[a] = "CUD" => Absent(entries[a])

C1_Lifecycle == [][C1_Step]_vars

C1_Witness ==
    /\ last.ins.op \in {"update", "delete"}
    /\ Targets(last.ins, last.ins.entry)
    /\ last.res = "NotFound"
    /\ life[last.ins.entry] = "CUD"
    /\ Absent(entries[last.ins.entry])

\* C2: a Create signed by the owner for a slot that holds a record fails with
\* AlreadyInitialized, whatever its message, and the stored record is unchanged.
C2_Step ==
    LET i == StepIns
        a == i.entry
    IN  (i.op = "create" /\ Targets(i, a) /\ IsSigner(i) /\ Present(entries[a]))
          => StepRes = "AlreadyInitialized" /\ entries'[a] = entries[a]

C2_CreateTwice == [][C2_Step]_vars

C2_Witness ==
    /\ last.ins.op = "create"
    /\ Targets(last.ins, last.ins.entry)
    /\ last.ins.signer = last.ins.owner
    /\ last.res = "AlreadyInitialized"
    /\ Present(entries[last.ins.entry])
    /\ entries[last.ins.entry].data.message # last.ins.message

\* C3: an Update or Delete submitted for the slot of a Present record and
\* signed by a key other than the record's owner fails with Unauthorized and
\* changes no record, no storage size and no balance.
C3_Step ==
    LET i == StepIns
        a == i.entry
    IN  (/\ i.op \in {"update", "delete"}
         /\ Targets(i, a)
         /\ Present(entries[a])
         /\ i.signer # entries[a].data.owner)
          => /\ StepRes = "Unauthorized"
             /\ entries' = entries
             /\ balances' = balances

C3_NonOwner == [][C3_Step]_vars

C3_Witness ==
    /\ last.ins.op \in {"update", "delete"}
    /\ Targets(last.ins, last.ins.entry)
    /\ Present(entries[last.ins.entry])
    /\ last.ins.signer # entries[last.ins.entry].data.owner
    /\ last.res = "Unauthorized"

\* C4: an instruction that returns an error leaves every slot and every
\* balance as they were.
C4_Step == (StepRes # "Ok") => entries' = entries /\ balances' = balances

C4_Atomic == [][C4_Step]_vars

C4_Witness ==
    /\ last.res = "InsufficientFunds"
    /\ \E a \in Slots : Present(entries[a])

\* C5: a Create for an Absent slot or an Update for a Present slot, signed by
\* the owner, whose message is longer than 1000 bytes fails with FieldTooLarge
\* and leaves the slot as it was.
C5_Step ==
    LET i == StepIns
        a == i.entry
    IN  (/\ i.op \in {"create", "update"}
         /\ Targets(i, a)
         /\ IsSigner(i)
         /\ i.message.len > 1000
         /\ (i.op = "create") <=> Absent(entries[a]))
          => StepRes = "FieldTooLarge" /\ entries'[a] = entries[a]

C5_MessageCap == [][C5_Step]_vars

C5_Witness ==
    /\ last.ins.op = "update"
    /\ last.ins.message.len > 1000
    /\ last.res = "FieldTooLarge"
    /\ Present(entries[last.ins.entry])
    /\ entries[last.ins.entry].data.message.len = 1000

\* C6: a successful Delete leaves the slot Absent, without storage and without
\* balance, credits the owner's account with exactly the balance the entry
\* held, and changes no other balance.
C6_Step ==
    LET i == StepIns
        a == i.entry
    IN  (i.op = "delete" /\ StepRes = "Ok")
          => /\ Present(entries[a])
             /\ Absent(entries'[a])
             /\ entries'[a].size = 0
             /\ entries'[a].lamports = 0
             /\ balances'[i.owner] = balances[i.owner] + entries[a].lamports
             /\ \A k \in Keys \ {i.owner} : balances'[k] = balances[k]
             /\ \A b \in Slots \ {a} : entries'[b].lamports = entries[b].lamports

C6_Refund == [][C6_Step]_vars

C6_Witness ==
    /\ last.ins.op = "delete"
    /\ last.res = "Ok"
    /\ entries[last.ins.entry].lamports = 0
    /\ balances[last.ins.owner] = MaxFunds
    /\ \E k \in Keys : balances[k] < MaxFunds

\* C7: a successful Update leaves the owner and the title of the addressed
\* record as they were, stores the new message, and changes no other slot.
C7_Step ==
    LET i == StepIns
        a == i.entry
    IN  (i.op = "update" /\ StepRes = "Ok")
          => /\ entries'[a].data.owner = entries[a].data.owner
             /\ entries'[a].data.title = entries[a].data.title
             /\ entries'[a].data.message = i.message
             /\ \A b \in Slots \ {a} : entries'[b] = entries[b]

C7_UpdateFrame == [][C7_Step]_vars

C7_Witness ==
    /\ last.ins.op = "update"
    /\ last.res = "Ok"
    /\ entries[last.ins.entry].data.message = last.ins.message
    /\ \E b \in Slots \ {last.ins.entry} : Present(entries[b])

C9_Funded ==
    \A a \in Slots :
        entries[a].size > 0 => entries[a].lamports >= entries[a].size * LamportsPerByte

C9_Step ==
    LET i == StepIns
        a == i.entry
        need == (8 + 32 + 4 + i.title.len + 4 + i.message.len) * LamportsPerByte
    IN  (/\ i.op \in {"create", "update"}
         /\ Targets(i, a)
         /\ IsSigner(i)
         /\ (i.op = "create") <=> Absent(entries[a])
         /\ i.title.len <= 50 /\ i.message.len <= 1000
         /\ need > entries[a].lamports
         /\ balances[i.owner] < need - entries[a].lamports)
          => /\ StepRes = "InsufficientFunds"
             /\ balances' = balances
             /\ entries' = entries

C9_RentExempt == [](C9_Funded) /\ [][C9_Step]_vars

C9_Witness ==
    /\ last.ins.op = "update"
    /\ last.res = "InsufficientFunds"
    /\ Present(entries[last.ins.entry])
    /\ last.ins.message.len > entries[last.ins.entry].data.message.len

\* C10 (as stated): two instructions for different (title, owner) pairs give
\* the same results and the same final state in either order, also when both
\* pairs have the same owner.
SamePairOutcome(s, i1, i2) ==
    LET a1 == Exec(s, i1)
        a2 == Exec([entries |-> a1.entries, balances |-> a1.balances], i2)
        b2 == Exec(s, i2)
        b1 == Exec([entries |-> b2.entries, balances |-> b2.balances], i1)
    IN  /\ a1.res = b1.res
        /\ a2.res = b2.res
        /\ a2.entries = b1.entries
        /\ a2.balances = b1.balances

C10_AnyOrder ==
    \A i1 \in Instructions, i2 \in Instructions :
        derive(i1.title, i1.owner) # derive(i2.title, i2.owner)
            => SamePairOutcome(State, i1, i2)

\* C10 (amended): two instructions whose (title, owner) pairs have different
\* owners give the same results and the same final state in either order.
C10_DisjointOwners ==
    \A i1 \in Instructions, i2 \in Instructions :
        i1.owner # i2.owner => SamePairOutcome(State, i1, i2)

C10_Witness ==
    \E a \in Slots, b \in Slots :
        /\ a.owner # b.owner
        /\ Present(entries[a]) /\ Present(entries[b])
        /\ balances[a.owner] < MinBalance(EncodedSize(a.title, Str("max", 1000)))
====
